---- MODULE Spec2Model ----
(***************************************************************************)
(* Queue-driven OCR job lifecycle: competing worker processes (worker.py)  *)
(* that receive a job id from a storage queue (queue_service.py), run      *)
(* process_job on the persisted job record and delete the message on       *)
(* accept; and the chunked OCR processor GeminiAsyncOCR.run.               *)
(*                                                                         *)
(* One step of a worker is one awaited operation on a shared service (job  *)
(* store, blob store, queue) together with the local computation that      *)
(* follows it up to the next await.  Workers are separate processes, so    *)
(* the steps of different workers interleave freely.                       *)
(***************************************************************************)
EXTENDS Integers, Sequences, FiniteSets, TLC

\* ---------------------------------------------------------------- bounds
\* the most parts a document of a queued job splits into
MaxJobParts == 1

\* the most parts a document handed to run directly splits into
MaxParts == 3

\* ------------------------------------------------------------- constants
MAX_RETRIES == 3

\* two competing worker processes, one submitted job
Workers == {"w1", "w2"}
Jobs == {"j1"}
NoWorker == "nobody"
NoMsg == "none"

JobStatus == {"QUEUED", "PROCESSING", "COMPLETED", "FAILED"}
Terminal == {"COMPLETED", "FAILED"}

\* ------------------------------------------------------------ job record
\* status, retry_count, error_log and final_text of the Job document.  The
\* timestamps are left out: updated_at is set to the wall clock before each
\* replace and nothing reads it.
NoText == [present |-> FALSE]

\* the absence of a record: get_job_by_id returns a falsy value
NoJob ==
  [status |-> "ABSENT", retryCount |-> 0, errorLog |-> <<>>, finalText |-> NoText]

\* the record the API layer creates before it enqueues the job id
NewJob ==
  [status |-> "QUEUED", retryCount |-> 0, errorLog |-> <<>>, finalText |-> NoText]

\* f"Processing failed after {MAX_RETRIES} retries."
ExhaustedNote == [kind |-> "exhausted", n |-> MAX_RETRIES, cause |-> "none"]

\* f"Attempt {job_doc.retry_count} failed: {str(e)}"
AttemptNote(doc, cause) == [kind |-> "attempt", n |-> doc.retryCount, cause |-> cause]

\* ------------------------------------------------- GeminiAsyncOCR.run
\* What the recognition service does for one chunk:
\*   stop           the call returns a candidate that finished with STOP
\*   call_raises    generate_content raises
\*   no_candidate   the response has no candidates
\*   abn_text       abnormal finish reason, the candidate carries text
\*   abn_nocontent  abnormal finish reason, the candidate has no content
\*   abn_raises     abnormal finish reason, reading the partial text raises
\*   no_usage       the response has no usage_metadata
Kinds ==
  {"stop", "call_raises", "no_candidate", "abn_text", "abn_nocontent",
   "abn_raises", "no_usage"}

\* the text and the usage count the service reports for the chunk at split position i
ChunkText(i) == <<i>>
ChunkTokens(i) == 2 ^ (i - 1)

\* _process_candidate: a PartOcrResult, None (dropped), or an exception
ProcessCandidate(kind, part_number) ==
  IF kind = "abn_raises" THEN [tag |-> "none"]
  ELSE IF kind = "no_usage" THEN [tag |-> "raise", exc |-> "AttributeError"]
  ELSE [tag |-> "result",
        part_number |-> part_number,
        text |-> IF kind = "abn_nocontent" THEN <<>> ELSE ChunkText(part_number),
        char_count |-> IF kind = "abn_nocontent" THEN 0 ELSE Len(ChunkText(part_number)),
        token_count |-> ChunkTokens(part_number)]

\* (variant) only the parts that finished with STOP are counted in the total
RECURSIVE RunLoopCountingStopOnly(_, _, _, _)
RunLoopCountingStopOnly(chunks, part_counter, part_results, total_tokens) ==
  IF part_counter > Len(chunks)
  THEN [tag |-> "value", part_results |-> part_results, total_tokens |-> total_tokens]
  ELSE LET kind == chunks[part_counter] IN
       IF kind \in {"call_raises", "no_candidate"}
       THEN RunLoopCountingStopOnly(chunks, part_counter + 1, part_results, total_tokens)
       ELSE LET result_obj == ProcessCandidate(kind, part_counter) IN
            IF result_obj.tag = "raise" THEN result_obj
            ELSE IF result_obj.tag = "none"
            THEN RunLoopCountingStopOnly(chunks, part_counter + 1, part_results, total_tokens)
            ELSE RunLoopCountingStopOnly(chunks, part_counter + 1,
                   Append(part_results, result_obj),
                   total_tokens + IF kind = "stop" THEN result_obj.token_count ELSE 0)

\* (variant) the surviving parts are numbered consecutively
RECURSIVE RunLoopRenumbering(_, _, _, _)
RunLoopRenumbering(chunks, part_counter, part_results, total_tokens) ==
  IF part_counter > Len(chunks)
  THEN [tag |-> "value", part_results |-> part_results, total_tokens |-> total_tokens]
  ELSE LET kind == chunks[part_counter] IN
       IF kind \in {"call_raises", "no_candidate"}
       THEN RunLoopRenumbering(chunks, part_counter + 1, part_results, total_tokens)
       ELSE LET result_obj == ProcessCandidate(kind, part_counter) IN
            IF result_obj.tag = "raise" THEN result_obj
            ELSE IF result_obj.tag = "none"
            THEN RunLoopRenumbering(chunks, part_counter + 1, part_results, total_tokens)
            ELSE RunLoopRenumbering(chunks, part_counter + 1,
                   Append(part_results,
                          [result_obj EXCEPT !.part_number = Len(part_results) + 1]),
                   total_tokens + result_obj.token_count)

\* the loop of run over the parts, in split order
RECURSIVE RunLoop(_, _, _, _)
RunLoop(chunks, part_counter, part_results, total_tokens) ==
  IF part_counter > Len(chunks)
  THEN [tag |-> "value", part_results |-> part_results, total_tokens |-> total_tokens]
  ELSE LET kind == chunks[part_counter] IN
       IF kind \in {"call_raises", "no_candidate"}
       THEN RunLoop(chunks, part_counter + 1, part_results, total_tokens)
       ELSE LET result_obj == ProcessCandidate(kind, part_counter) IN
            IF result_obj.tag = "raise" THEN result_obj
            ELSE IF result_obj.tag = "none"
            THEN RunLoop(chunks, part_counter + 1, part_results, total_tokens)
            ELSE RunLoop(chunks, part_counter + 1,
                         Append(part_results, result_obj),
                         total_tokens + result_obj.token_count)

\* run: None when the split raises, else the loop's outcome
run(doc) ==
  IF ~doc.splitOk THEN [tag |-> "None"]
  ELSE RunLoop(doc.chunks, 1, <<>>, 0)

SeqsUpTo(S, n) == UNION {[1..k -> S] : k \in 0..n}

\* ---------------------------------------------------- the call of run
\* the parameters of GeminiAsyncOCR.run, and the keywords process_job passes
RunParams == {"file", "output_prefix"}
CallKeywords == {"file", "pages_per_part"}

\* worker.py imports GeminiAsyncOCR from src.services.gemini_service.  The
\* class of GeminiAsyncOCR.py has the parameters RunParams; the other
\* signature is that of a gemini_service whose run takes the keyword
\* process_job passes.  Which one a deployment binds is fixed at start.
Signatures == {RunParams, RunParams \cup {"pages_per_part"}}

\* `await gemini.run(file=..., pages_per_part=...)` on a document: a keyword
\* run does not take raises TypeError before the body runs
CallRun(params, doc) ==
  IF CallKeywords \subseteq params
  THEN run(doc)
  ELSE [tag |-> "raise", exc |-> "TypeError"]

\* the chunks run drops: the call raises, no candidate, unsalvageable finish
DropKinds == {"call_raises", "no_candidate", "abn_raises"}

\* what the blob store holds for a job: nothing, bytes the splitter rejects,
\* or a PDF; and the documents a worker may hand to run for it
BlobKinds == {"missing", "malformed", "pdf"}

JobDocs(bytes) ==
  IF bytes = "pdf"
  THEN {[splitOk |-> TRUE, chunks |-> c] : c \in SeqsUpTo(Kinds, MaxJobParts)}
  ELSE {[splitOk |-> FALSE, chunks |-> <<>>]}

\* ------------------------------------------------------------------ state
VARIABLES
  store,     \* job store: the persisted record of each job id (NoJob: none)
  blob,      \* blob store: what "<job_id>.pdf" holds
  gemini,    \* the parameters of the run method the workers are bound to
  queue,     \* the queue's message for each job id: its state and the
             \* worker whose pop receipt is the valid one
  pc,        \* where each worker is in main / process_job
  msg,       \* the message a worker received (its content is the job id)
  job_doc,   \* process_job's local copy of the record
  verdict,   \* is_processed_successfully
  loaded,    \* history: the record as get_job_by_id returned it
  path,      \* history: the branch process_job took after the load
  effects,   \* history: what this call of process_job did so far
  file,      \* test_ocr_cli: the document handed to run
  ocr,       \* test_ocr_cli: what run gave back
  open       \* the service connections each worker holds open

vars ==
  <<store, blob, gemini, queue, pc, msg, job_doc, verdict, loaded, path, effects,
    file, ocr, open>>

\* the services main connects to, in the order the finally block closes them
CloseOrder == <<"cosmos_service", "blob_service", "queue_service", "gemini_client">>
Connections == {CloseOrder[i] : i \in 1..Len(CloseOrder)}

\* no document read yet, run not called yet
NoFile == [splitOk |-> FALSE, chunks |-> <<>>]
NotRun == [tag |-> "pending"]

\* the API layer created the record (or it is missing), stored the bytes
\* (or they are missing) and enqueued the job id; every worker is at the
\* top of its loop
Init ==
  /\ store \in [Jobs -> {NoJob, NewJob}]
  /\ blob \in [Jobs -> BlobKinds]
  /\ gemini \in Signatures
  /\ queue = [j \in Jobs |-> [state |-> "visible", holder |-> NoWorker]]
  /\ pc = [w \in Workers |-> "poll"]
  /\ msg = [w \in Workers |-> NoMsg]
  /\ job_doc = [w \in Workers |-> NoJob]
  /\ verdict = [w \in Workers |-> FALSE]
  /\ loaded = [w \in Workers |-> NoJob]
  /\ path = [w \in Workers |-> "none"]
  /\ effects = [w \in Workers |-> {}]
  /\ file = NoFile
  /\ ocr = NotRun
  /\ open = [w \in Workers |-> Connections]

\* ------------------------------------------------- process_job, locally
IsTerminalOnlyCompleted(doc) == doc.status = "COMPLETED"

IsTerminal(doc) == doc.status \in {"COMPLETED", "FAILED"}

ExhaustedOffByOne(doc) == doc.retryCount > MAX_RETRIES

Exhausted(doc) == doc.retryCount >= MAX_RETRIES

LoadPathNoMissingCheck(doc) ==
  IF IsTerminal(doc) THEN "terminal"
  ELSE IF Exhausted(doc) THEN "exhausted"
  ELSE "attempt"

\* the branch process_job takes on the loaded record
LoadPath(doc) ==
  IF doc = NoJob THEN "notfound"
  ELSE IF IsTerminal(doc) THEN "terminal"
  ELSE IF Exhausted(doc) THEN "exhausted"
  ELSE "attempt"

MarkFailedCounting(doc) ==
  [doc EXCEPT !.status = "FAILED", !.retryCount = @ + 1,
              !.errorLog = Append(@, ExhaustedNote)]

MarkFailed(doc) ==
  [doc EXCEPT !.status = "FAILED", !.errorLog = Append(@, ExhaustedNote)]

MarkProcessingNoCount(doc) == [doc EXCEPT !.status = "PROCESSING"]

MarkProcessing(doc) ==
  [doc EXCEPT !.status = "PROCESSING", !.retryCount = @ + 1]

MarkCompleted(doc, ocr_result) ==
  [doc EXCEPT !.status = "COMPLETED",
              !.finalText = [present |-> TRUE, value |-> ocr_result]]

MarkRetryFailingOnLast(doc, cause) ==
  [doc EXCEPT !.status = IF doc.retryCount >= MAX_RETRIES THEN "FAILED" ELSE "QUEUED",
              !.errorLog = Append(@, AttemptNote(doc, cause))]

MarkRetryUncounted(doc, cause) ==
  [doc EXCEPT !.status = "QUEUED", !.retryCount = @ - 1,
              !.errorLog = Append(@, AttemptNote(doc, cause))]

MarkRetry(doc, cause) ==
  [doc EXCEPT !.status = "QUEUED", !.errorLog = Append(@, AttemptNote(doc, cause))]

\* process_job returns ok to main
Return(w, ok) ==
  /\ verdict' = [verdict EXCEPT ![w] = ok]
  /\ pc' = [pc EXCEPT ![w] = "returned"]

\* ------------------------------------------------------------- the queue
\* receive_message: a visible message becomes invisible for the visibility
\* timeout and the receiver holds its pop receipt
Receive(w) ==
  /\ pc[w] = "poll"
  /\ \E j \in Jobs :
       /\ queue[j].state = "visible"
       /\ queue' = [queue EXCEPT ![j] = [state |-> "invisible", holder |-> w]]
       /\ msg' = [msg EXCEPT ![w] = j]
  /\ pc' = [pc EXCEPT ![w] = "load"]
  /\ UNCHANGED <<file, ocr, open, store, blob, gemini, job_doc, verdict, loaded, path, effects>>

\* receive_message returned None: asyncio.sleep(10), then poll again
Sleep(w) ==
  /\ pc[w] = "poll"
  /\ \A j \in Jobs : queue[j].state # "visible"
  /\ UNCHANGED vars

\* the broker: the visibility timeout of an undeleted message elapses
Redeliver(j) ==
  /\ queue[j].state = "invisible"
  /\ queue' = [queue EXCEPT ![j].state = "visible"]
  /\ UNCHANGED <<file, ocr, open, store, blob, gemini, pc, msg, job_doc, verdict, loaded, path, effects>>

\* the same, when the timeout exceeds the time the holder needs
RedeliverAfterHandling(j) ==
  /\ queue[j].state = "invisible"
  /\ pc[queue[j].holder] = "poll"
  /\ Redeliver(j)

\* delete_message: the message goes when the pop receipt is still the valid
\* one; otherwise the service answers MessageNotFound, which is logged
DeleteMessage(w, j) ==
  IF queue[j].state # "deleted" /\ queue[j].holder = w
  THEN [queue EXCEPT ![j].state = "deleted"]
  ELSE queue

AfterProcessJobAlwaysDelete(w, is_processed_successfully) ==
  IF queue[msg[w]].state # "deleted" /\ queue[msg[w]].holder = w
  THEN [queue EXCEPT ![msg[w]].state = "deleted"]
  ELSE queue

AfterProcessJobNeverDelete(w, is_processed_successfully) == queue

\* main: delete the message iff process_job returned True
AfterProcessJob(w, is_processed_successfully) ==
  IF is_processed_successfully THEN DeleteMessage(w, msg[w]) ELSE queue

\* main after process_job returned: the delete or not, and back to the top
\* of the loop, where the locals of this iteration are gone
Dispatch(w) ==
  /\ pc[w] = "returned"
  /\ queue' = AfterProcessJob(w, verdict[w])
  /\ pc' = [pc EXCEPT ![w] = "poll"]
  /\ msg' = [msg EXCEPT ![w] = NoMsg]
  /\ job_doc' = [job_doc EXCEPT ![w] = NoJob]
  /\ verdict' = [verdict EXCEPT ![w] = FALSE]
  /\ loaded' = [loaded EXCEPT ![w] = NoJob]
  /\ path' = [path EXCEPT ![w] = "none"]
  /\ effects' = [effects EXCEPT ![w] = {}]
  /\ UNCHANGED <<file, ocr, open, store, blob, gemini>>

\* ------------------------------------------------------------ process_job
\* get_job_by_id and the checks on the loaded record
Load(w) ==
  /\ pc[w] = "load"
  /\ LET doc == store[msg[w]]
         p == LoadPath(doc)
     IN /\ loaded' = [loaded EXCEPT ![w] = doc]
        /\ path' = [path EXCEPT ![w] = p]
        /\ CASE p = "notfound" ->
                  /\ Return(w, FALSE)
                  /\ UNCHANGED job_doc
             [] p = "terminal" ->
                  /\ Return(w, TRUE)
                  /\ job_doc' = [job_doc EXCEPT ![w] = doc]
             [] p = "exhausted" ->
                  /\ job_doc' = [job_doc EXCEPT ![w] = MarkFailed(doc)]
                  /\ pc' = [pc EXCEPT ![w] = "replace_failed"]
                  /\ UNCHANGED verdict
             [] p = "attempt" ->
                  /\ job_doc' = [job_doc EXCEPT ![w] = MarkProcessing(doc)]
                  /\ pc' = [pc EXCEPT ![w] = "replace_processing"]
                  /\ UNCHANGED verdict
  /\ UNCHANGED <<file, ocr, open, store, blob, gemini, queue, msg, effects>>

\* replace_one: the whole record, keyed by id, unconditionally
Replace(w) ==
  /\ store' = [store EXCEPT ![msg[w]] = job_doc[w]]
  /\ effects' = [effects EXCEPT ![w] = @ \cup {"write"}]

\* the replace of the exhausted-retries branch, then return True
ReplaceFailed(w) ==
  /\ pc[w] = "replace_failed"
  /\ Replace(w)
  /\ Return(w, TRUE)
  /\ UNCHANGED <<file, ocr, open, blob, gemini, queue, msg, job_doc, loaded, path>>

\* the replace that persists PROCESSING and the incremented retry count
ReplaceProcessing(w) ==
  /\ pc[w] = "replace_processing"
  /\ Replace(w)
  /\ pc' = [pc EXCEPT ![w] = "download"]
  /\ UNCHANGED <<file, ocr, open, blob, gemini, queue, msg, job_doc, verdict, loaded, path>>

\* the except branch up to its replace
Fail(w, cause) ==
  /\ job_doc' = [job_doc EXCEPT ![w] = MarkRetry(job_doc[w], cause)]
  /\ pc' = [pc EXCEPT ![w] = "replace_retry"]

\* download_file; no bytes raises FileNotFoundError
Download(w) ==
  /\ pc[w] = "download"
  /\ effects' = [effects EXCEPT ![w] = @ \cup {"fetch"}]
  /\ IF blob[msg[w]] # "missing"
     THEN /\ pc' = [pc EXCEPT ![w] = "ocr"]
          /\ UNCHANGED job_doc
     ELSE Fail(w, "FileNotFoundError")
  /\ UNCHANGED <<file, ocr, open, store, blob, gemini, queue, msg, verdict, loaded, path>>

\* the call of gemini.run and what process_job does with its outcome
Ocr(w) ==
  /\ pc[w] = "ocr"
  /\ effects' = [effects EXCEPT ![w] = @ \cup {"ocr"}]
  /\ \E doc \in JobDocs(blob[msg[w]]) :
       LET ocr_result == CallRun(gemini, doc) IN
         CASE ocr_result.tag = "raise" -> Fail(w, ocr_result.exc)
           [] ocr_result.tag = "None" -> Fail(w, "RuntimeError")
           [] ocr_result.tag = "value" ->
                /\ job_doc' = [job_doc EXCEPT ![w] =
                                 MarkCompleted(job_doc[w], ocr_result)]
                /\ pc' = [pc EXCEPT ![w] = "replace_completed"]
  /\ UNCHANGED <<file, ocr, open, store, blob, gemini, queue, msg, verdict, loaded, path>>

\* the replace of the success branch, then return True
ReplaceCompleted(w) ==
  /\ pc[w] = "replace_completed"
  /\ Replace(w)
  /\ Return(w, TRUE)
  /\ UNCHANGED <<file, ocr, open, blob, gemini, queue, msg, job_doc, loaded, path>>

\* the replace of the except branch, then return False
ReplaceRetry(w) ==
  /\ pc[w] = "replace_retry"
  /\ Replace(w)
  /\ Return(w, FALSE)
  /\ UNCHANGED <<file, ocr, open, blob, gemini, queue, msg, job_doc, loaded, path>>

\* ---------------------------------------------------------- specifications
WorkerStep(w) ==
  \/ Receive(w)
  \/ Sleep(w)
  \/ Load(w)
  \/ ReplaceFailed(w)
  \/ ReplaceProcessing(w)
  \/ Download(w)
  \/ Ocr(w)
  \/ ReplaceCompleted(w)
  \/ ReplaceRetry(w)
  \/ Dispatch(w)

\* competing consumers; a message may be redelivered at any time
Next ==
  \/ \E w \in Workers : WorkerStep(w)
  \/ \E j \in Jobs : Redeliver(j)

Spec == Init /\ [][Next]_vars

\* every delivery is handled to the end before the message is redelivered
NextSeq ==
  \/ \E w \in Workers : WorkerStep(w)
  \/ \E j \in Jobs : RedeliverAfterHandling(j)

SpecSeq == Init /\ [][NextSeq]_vars

\* one worker that keeps polling: the body of `while True` always runs to
\* its end and starts again, and the queue service makes an undeleted
\* message visible again when its visibility timeout has elapsed
TheWorker == "w1"

NextOne ==
  \/ WorkerStep(TheWorker)
  \/ \E j \in Jobs : Redeliver(j)

SpecLive ==
  /\ Init
  /\ [][NextOne]_vars
  /\ WF_vars(WorkerStep(TheWorker))
  /\ \A j \in Jobs : WF_vars(Redeliver(j))

\* ------------------------------------------------------ run, called directly
\* test_ocr_cli.run: read a document, `ocr = await cli.run(fs)`.  No worker
\* runs, no job is queued.
Files ==
  {[splitOk |-> FALSE, chunks |-> <<>>]}
    \cup {[splitOk |-> TRUE, chunks |-> c] : c \in SeqsUpTo(Kinds, MaxParts)}

InitRun ==
  /\ store = [j \in Jobs |-> NoJob]
  /\ blob = [j \in Jobs |-> "missing"]
  /\ gemini = RunParams
  /\ queue = [j \in Jobs |-> [state |-> "deleted", holder |-> NoWorker]]
  /\ pc = [w \in Workers |-> "off"]
  /\ msg = [w \in Workers |-> NoMsg]
  /\ job_doc = [w \in Workers |-> NoJob]
  /\ verdict = [w \in Workers |-> FALSE]
  /\ loaded = [w \in Workers |-> NoJob]
  /\ path = [w \in Workers |-> "none"]
  /\ effects = [w \in Workers |-> {}]
  /\ file \in Files
  /\ ocr = NotRun
  /\ open = [w \in Workers |-> {}]

\* ocr = await cli.run(fs)
RunOcr ==
  /\ ocr = NotRun
  /\ ocr' = run(file)
  /\ UNCHANGED <<file, open, store, blob, gemini, queue, pc, msg, job_doc, verdict,
                 loaded, path, effects>>

NextRun == RunOcr

SpecRun == InitRun /\ [][NextRun]_vars

\* ------------------------------------------------------------------ faults
\* Operations on the shared services may raise.  A replace that raises is
\* taken not to have stored the record.

\* where a worker is once it has left the while loop: in the finally block
\* after the shutdown signal ("shutdown") or with an exception pending
\* ("raised"), and after main has ended, likewise ("stopped", "died")
OutOfLoop == {"shutdown", "raised", "stopped", "died"}

\* the while loop of main is left: the locals of the iteration are gone
LeaveLoop(w, how) ==
  /\ pc' = [pc EXCEPT ![w] = how]
  /\ msg' = [msg EXCEPT ![w] = NoMsg]
  /\ job_doc' = [job_doc EXCEPT ![w] = NoJob]
  /\ verdict' = [verdict EXCEPT ![w] = FALSE]
  /\ loaded' = [loaded EXCEPT ![w] = NoJob]
  /\ path' = [path EXCEPT ![w] = "none"]
  /\ effects' = [effects EXCEPT ![w] = {}]
  /\ UNCHANGED <<file, ocr, open, store, blob, gemini, queue>>

\* get_job_by_id, the replace of the exhausted-retries branch, or the replace
\* of the except branch raises: none of them is inside the try, and main
\* catches only KeyboardInterrupt, so the exception leaves the loop
RaiseOutsideTry(w) ==
  /\ pc[w] \in {"load", "replace_failed", "replace_retry"}
  /\ LeaveLoop(w, "raised")

\* the PROCESSING replace, download_file, or the replace of the success
\* branch raises: caught by `except Exception`
RaiseInsideTry(w) ==
  /\ pc[w] \in {"replace_processing", "download", "replace_completed"}
  /\ Fail(w, "Exception")
  /\ effects' = [effects EXCEPT ![w] = @ \cup {"raise"}]
  /\ UNCHANGED <<file, ocr, open, store, blob, gemini, queue, msg, verdict, loaded, path>>

\* delete_message raises an AzureError other than MessageNotFound, which
\* StorageQueueService.delete_message logs and raises again
DeleteRaises(w) ==
  /\ pc[w] = "returned"
  /\ verdict[w]
  /\ LeaveLoop(w, "raised")

\* the external shutdown signal arrives while the worker waits on an
\* operation; nothing of the current iteration is undone
Interrupt(w) ==
  /\ pc[w] \notin OutOfLoop
  /\ LeaveLoop(w, "shutdown")

\* the visibility timeout of a message whose holder has left its loop
RedeliverAfterExit(j) ==
  /\ queue[j].state = "invisible"
  /\ pc[queue[j].holder] \in OutOfLoop
  /\ Redeliver(j)

\* ----------------------------------------------------- the finally block
\* main has ended: after the shutdown signal, or with the pending exception
Ended(w) == IF pc[w] = "shutdown" THEN "stopped" ELSE "died"

\* the next close of the finally block returns; the closes run in CloseOrder
Close(w) ==
  /\ pc[w] \in {"shutdown", "raised"}
  /\ open[w] # {}
  /\ LET i == CHOOSE k \in 1..Len(CloseOrder) :
                /\ CloseOrder[k] \in open[w]
                /\ \A m \in 1..(k - 1) : CloseOrder[m] \notin open[w]
     IN open' = [open EXCEPT ![w] = @ \ {CloseOrder[i]}]
  /\ UNCHANGED <<file, ocr, store, blob, gemini, queue, pc, msg, job_doc, verdict,
                 loaded, path, effects>>

\* the next close raises: the exception leaves the finally block and main,
\* and the closes after it are not run
CloseRaises(w) ==
  /\ pc[w] \in {"shutdown", "raised"}
  /\ open[w] # {}
  /\ pc' = [pc EXCEPT ![w] = Ended(w)]
  /\ UNCHANGED <<file, ocr, open, store, blob, gemini, queue, msg, job_doc, verdict,
                 loaded, path, effects>>

\* the last close returned: main ends
Exit(w) ==
  /\ pc[w] \in {"shutdown", "raised"}
  /\ open[w] = {}
  /\ pc' = [pc EXCEPT ![w] = Ended(w)]
  /\ UNCHANGED <<file, ocr, open, store, blob, gemini, queue, msg, job_doc, verdict,
                 loaded, path, effects>>

\* deliveries handled one at a time, with faults and shutdown
NextFault ==
  \/ \E w \in Workers : WorkerStep(w)
  \/ \E j \in Jobs : RedeliverAfterHandling(j)
  \/ \E w \in Workers : RaiseOutsideTry(w)
  \/ \E w \in Workers : RaiseInsideTry(w)
  \/ \E w \in Workers : DeleteRaises(w)
  \/ \E w \in Workers : Interrupt(w)
  \/ \E j \in Jobs : RedeliverAfterExit(j)

SpecFault == Init /\ [][NextFault]_vars

\* one worker from its start to the end of main: the loop, faults, the
\* shutdown signal and the finally block
NextExit ==
  \/ WorkerStep(TheWorker)
  \/ \E j \in Jobs : RedeliverAfterHandling(j)
  \/ RaiseOutsideTry(TheWorker)
  \/ RaiseInsideTry(TheWorker)
  \/ DeleteRaises(TheWorker)
  \/ Interrupt(TheWorker)
  \/ Close(TheWorker)
  \/ CloseRaises(TheWorker)
  \/ Exit(TheWorker)

SpecExit == Init /\ [][NextExit]_vars

\* ------------------------------------------------------------------ claims
\* C1: once the persisted record is COMPLETED or FAILED, no later replace by
\* any worker sets its status to PROCESSING or QUEUED.
C1_TerminalNeverReopened ==
  [][\A j \in Jobs :
       store[j].status \in Terminal => store'[j].status \notin {"PROCESSING", "QUEUED"}]_vars

\* C2: process_job on a record that is COMPLETED or FAILED returns True with
\* no job-store write, no blob fetch and no OCR call, the persisted record is
\* unchanged, and main then issues the delete of the message.
C2_TerminalDequeueIsNoOp ==
  [][\A w \in Workers :
       /\ (pc[w] = "load" /\ pc'[w] # "load" /\ store[msg[w]].status \in Terminal)
            => /\ store' = store
               /\ effects'[w] = {}
               /\ pc'[w] = "returned"
               /\ verdict'[w]
               /\ path'[w] = "terminal"
       /\ (pc[w] = "returned" /\ pc'[w] # "returned" /\ path[w] = "terminal")
            => /\ store' = store
               /\ (queue[msg[w]].holder = w => queue'[msg[w]].state = "deleted")]_vars

C2_Witness ==
  \E w \in Workers :
    /\ pc[w] = "returned"
    /\ path[w] = "terminal"
    /\ loaded[w].status \in Terminal
    /\ store[msg[w]] = loaded[w]
    /\ queue[msg[w]].holder = w

\* C3: main issues delete_message for a received message iff process_job
\* returned True for it; on a reject (record missing, failed attempt) the
\* queue is left as it is, and a message leaves the queue in no other way.
C3_DeleteIffAccept ==
  [][/\ \A w \in Workers :
          (pc[w] = "returned" /\ pc'[w] # "returned")
            => /\ verdict[w] => queue' = DeleteMessage(w, msg[w])
               /\ ~verdict[w] => queue' = queue
               /\ path[w] = "notfound" => ~verdict[w]
               /\ (path[w] = "attempt" /\ job_doc[w].status = "QUEUED") => ~verdict[w]
     /\ \A j \in Jobs :
          (queue[j].state # "deleted" /\ queue'[j].state = "deleted")
            => \E w \in Workers :
                 pc[w] = "returned" /\ pc'[w] = "poll" /\ msg[w] = j /\ verdict[w]]_vars

C3_Witness ==
  \E w \in Workers :
    /\ pc[w] = "returned"
    /\ ~verdict[w]
    /\ path[w] = "attempt"
    /\ queue[msg[w]].state = "deleted"

\* C4: the persisted retryCount of a job created with retryCount 0 never
\* exceeds MAX_RETRIES, whatever the interleaving of the workers.
C4_RetryCountBounded ==
  \A j \in Jobs : store[j].retryCount <= MAX_RETRIES

C4_Witness ==
  \E j \in Jobs :
    /\ store[j].status = "PROCESSING"
    /\ store[j].retryCount = MAX_RETRIES
    /\ \E w \in Workers : pc[w] = "load" /\ msg[w] = j /\ queue[j].holder = w

\* C5: when every delivery is handled to the end before the next one starts,
\* the persisted retryCount goes up by exactly 1 with each replace that sets
\* PROCESSING, is left as it is by every other step (terminal, exhausted and
\* not-found dequeues, the success and the failure replace), and never
\* decreases.
C5_RetryCountStepsByOne ==
  [][\A j \in Jobs :
       IF store'[j] # store[j] /\ store'[j].status = "PROCESSING"
       THEN store'[j].retryCount = store[j].retryCount + 1
       ELSE store'[j].retryCount = store[j].retryCount]_vars

C5_Witness ==
  \E j \in Jobs :
    /\ store[j].status = "QUEUED"
    /\ store[j].retryCount = 2
    /\ \E w \in Workers : pc[w] = "returned" /\ msg[w] = j /\ "write" \in effects[w]

\* C6: on a loaded record that is not terminal and has retryCount >=
\* MAX_RETRIES, process_job sets FAILED, appends exactly one terminal note,
\* persists that record and returns True; retryCount is not incremented, no
\* blob is fetched and the OCR processor is not invoked.
C6_ExhaustedForcesFailed ==
  [][\A w \in Workers :
       LET failed == [loaded'[w] EXCEPT !.status = "FAILED",
                                        !.errorLog = Append(@, ExhaustedNote)]
       IN /\ (/\ pc[w] = "load" /\ pc'[w] # "load"
              /\ store[msg[w]] # NoJob
              /\ store[msg[w]].status \notin Terminal
              /\ store[msg[w]].retryCount >= MAX_RETRIES)
               => /\ path'[w] = "exhausted"
                  /\ loaded'[w] = store[msg[w]]
                  /\ pc'[w] = "replace_failed"
          /\ path'[w] = "exhausted"
               => /\ job_doc'[w] = failed
                  /\ pc'[w] \in {"replace_failed", "returned"}
                  /\ effects'[w] \subseteq {"write"}
                  /\ pc'[w] = "returned" => verdict'[w] /\ effects'[w] = {"write"}
          /\ (pc[w] = "replace_failed" /\ pc'[w] # "replace_failed")
               => store'[msg[w]] = failed /\ pc'[w] = "returned"]_vars

C6_Witness ==
  \E w \in Workers :
    /\ pc[w] = "returned"
    /\ path[w] = "exhausted"
    /\ loaded[w].status = "QUEUED"
    /\ store[msg[w]].status = "FAILED"

\* the notes of n attempts that failed with the same cause
AttemptNotes(n, cause) ==
  [i \in 1..n |-> [kind |-> "attempt", n |-> i, cause |-> cause]]

\* C7 as claimed: with the blob fetch failing on every attempt, after the
\* first attempt the record is QUEUED with retryCount 1 and one errorLog
\* entry, and when the job is FAILED its errorLog has exactly three entries.
C7_FailedWithThreeEntries ==
  \A j \in Jobs :
    (blob[j] = "missing" /\ store[j] # NoJob)
      => /\ (store[j].retryCount = 1 /\ store[j].status # "PROCESSING")
              => store[j].status = "QUEUED" /\ Len(store[j].errorLog) = 1
         /\ store[j].status = "FAILED" => Len(store[j].errorLog) = 3

\* C7 as amended: each failing attempt, the third included, leaves the record
\* QUEUED with one note per attempt; the job becomes FAILED on the dequeue
\* after the third attempt, and its errorLog then has four entries: the
\* three attempt notes and the exhausted-retries note.
C7_FailedWithFourEntries ==
  \A j \in Jobs :
    (blob[j] = "missing" /\ store[j] # NoJob)
      => /\ store[j].status \in {"QUEUED", "PROCESSING", "FAILED"}
         /\ store[j].status = "QUEUED"
              => store[j].errorLog = AttemptNotes(store[j].retryCount, "FileNotFoundError")
         /\ store[j].status = "PROCESSING"
              => store[j].errorLog = AttemptNotes(store[j].retryCount - 1, "FileNotFoundError")
         /\ store[j].status = "FAILED"
              => /\ store[j].retryCount = MAX_RETRIES
                 /\ store[j].errorLog =
                      Append(AttemptNotes(MAX_RETRIES, "FileNotFoundError"), ExhaustedNote)
                 /\ Len(store[j].errorLog) = 4

C7_Witness ==
  \E j \in Jobs :
    /\ blob[j] = "missing"
    /\ store[j].status = "FAILED"
    /\ queue[j].state = "deleted"

\* C8: with no record for the dequeued job id, process_job returns False
\* without a job-store write, a blob fetch or an OCR call (no retryCount is
\* advanced, no errorLog entry written), and main does not delete the message.
C8_MissingRecordIsRejected ==
  [][\A w \in Workers :
       /\ (pc[w] = "load" /\ pc'[w] # "load" /\ store[msg[w]] = NoJob)
            => /\ store' = store
               /\ effects'[w] = {}
               /\ pc'[w] = "returned"
               /\ ~verdict'[w]
               /\ path'[w] = "notfound"
       /\ (pc[w] = "returned" /\ pc'[w] # "returned" /\ path[w] = "notfound")
            => /\ store' = store
               /\ queue' = queue
               /\ queue[msg[w]].state # "deleted"]_vars

C8_Witness ==
  \E w \in Workers :
    /\ pc[w] = "returned"
    /\ path[w] = "notfound"
    /\ store[msg[w]] = NoJob
    /\ queue[msg[w]].state = "invisible"

\* a worker's attempt on a job whose bytes are missing has returned
MissingBytesAttemptDone(w) ==
  /\ pc[w] = "returned"
  /\ path[w] = "attempt"
  /\ blob[msg[w]] = "missing"

\* C9 as claimed: with the record present and the bytes missing, the message
\* is left on the queue and the persisted retryCount after the dequeue
\* equals the retryCount before it.
C9_MissingBytesNotCounted ==
  \A w \in Workers :
    MissingBytesAttemptDone(w)
      => /\ ~verdict[w]
         /\ store[msg[w]].retryCount = loaded[w].retryCount

\* C9 as amended: with the record present and the bytes missing, the message
\* is left on the queue and the failure is counted: the record the worker
\* persists has a retryCount one above that of the record it loaded.
C9_MissingBytesCounted ==
  [][\A w \in Workers :
       /\ (pc[w] = "download" /\ pc'[w] # "download" /\ blob[msg[w]] = "missing")
            => pc'[w] = "replace_retry"
       /\ (pc[w] = "replace_retry" /\ pc'[w] # "replace_retry" /\ blob[msg[w]] = "missing")
            => /\ store'[msg[w]].retryCount = loaded[w].retryCount + 1
               /\ store'[msg[w]].status = "QUEUED"
               /\ pc'[w] = "returned"
               /\ ~verdict'[w]
       /\ (MissingBytesAttemptDone(w) /\ pc'[w] # "returned")
            => queue' = queue]_vars

C9_Witness ==
  \E w \in Workers :
    /\ MissingBytesAttemptDone(w)
    /\ store[msg[w]].retryCount = loaded[w].retryCount + 1
    /\ queue[msg[w]].state = "visible"

\* C10: with the record present, retry budget left, the bytes present and
\* the split succeeding, the attempt ends with the record persisted as
\* COMPLETED, finalText stored and the verdict True, whichever chunks were
\* dropped; only a fault that is no chunk drop (a response without usage
\* accounting) ends it otherwise.
C10_DropsStillComplete ==
  \A w \in Workers :
    (/\ pc[w] = "returned"
     /\ path[w] = "attempt"
     /\ blob[msg[w]] = "pdf"
     /\ ~(/\ job_doc[w].status = "QUEUED"
          /\ job_doc[w].errorLog[Len(job_doc[w].errorLog)].cause = "AttributeError"))
      => /\ verdict[w]
         /\ store[msg[w]].status = "COMPLETED"
         /\ store[msg[w]].finalText.present


C12_ConvergesToTerminal ==
  \A j \in Jobs :
    (store[j].status = "QUEUED" /\ queue[j].state # "deleted")
      ~> (/\ store[j].status \in Terminal
          /\ queue[j].state = "deleted"
          /\ store[j].retryCount <= MAX_RETRIES)

C12_Witness ==
  \E j \in Jobs :
    /\ store[j].status = "FAILED"
    /\ store[j].retryCount = MAX_RETRIES
    /\ queue[j].state = "deleted"
    /\ pc[TheWorker] = "poll"

\* C13: no fault raised by an operation while a message is handled is thrown
\* past the worker loop: a worker leaves its loop only on the shutdown
\* signal, never because an exception left it.
C13_LoopSurvivesFaults ==
  \A w \in Workers : pc[w] # "raised"

\* the split positions of the chunks run does not drop
Survivors(chunks) == {i \in 1..Len(chunks) : chunks[i] \notin DropKinds}

\* C14: the result list run returns holds exactly the non-dropped chunks in
\* strictly ascending part number, each part number being the 1-based split
\* position of its chunk: dropped chunks consume their number, survivors are
\* not renumbered.
C14_PartNumbersAreSplitPositions ==
  ocr.tag = "value" =>
    LET results == ocr.part_results IN
      /\ \A k \in 1..(Len(results) - 1) :
           results[k].part_number < results[k + 1].part_number
      /\ {results[k].part_number : k \in 1..Len(results)} = Survivors(file.chunks)
      /\ \A k \in 1..Len(results) :
           results[k].text \in {<<>>, ChunkText(results[k].part_number)}

C14_Witness ==
  /\ ocr.tag = "value"
  /\ Len(file.chunks) = 3
  /\ file.chunks[2] \in DropKinds
  /\ Len(ocr.part_results) = 2
  /\ ocr.part_results[1].part_number = 1
  /\ ocr.part_results[2].part_number = 3

\* the sum of the usage counts the service reported for the chunks at the
\* split positions in S
RECURSIVE SumTokens(_)
SumTokens(S) ==
  IF S = {} THEN 0
  ELSE LET i == CHOOSE x \in S : TRUE IN ChunkTokens(i) + SumTokens(S \ {i})

\* C16: the token total run returns is the sum of the token counts of
\* exactly the non-dropped chunks; a dropped chunk adds nothing, and the
\* total is 0 when every chunk was dropped.
C16_TotalIsSumOverSurvivors ==
  ocr.tag = "value" =>
    /\ ocr.total_tokens = SumTokens(Survivors(file.chunks))
    /\ \A k \in 1..Len(ocr.part_results) :
         ocr.part_results[k].token_count = ChunkTokens(ocr.part_results[k].part_number)
    /\ Survivors(file.chunks) = {} => ocr.total_tokens = 0

C16_Witness ==
  /\ ocr.tag = "value"
  /\ Len(file.chunks) = 3
  /\ file.chunks[1] = "abn_text"
  /\ file.chunks[2] \in DropKinds
  /\ file.chunks[3] = "stop"
  /\ ocr.total_tokens = ChunkTokens(1) + ChunkTokens(3)

\* the line separator, and the texts of a list of results joined by it
Newline == "\n"

RECURSIVE JoinTexts(_)
JoinTexts(results) ==
  IF results = <<>> THEN <<>>
  ELSE IF Len(results) = 1 THEN results[1].text
  ELSE results[1].text \o <<Newline>> \o JoinTexts(Tail(results))

\* the results of the chunks run does not drop, in split order
RECURSIVE SurvivingResults(_, _)
SurvivingResults(chunks, i) ==
  IF i > Len(chunks) THEN <<>>
  ELSE IF chunks[i] \in DropKinds THEN SurvivingResults(chunks, i + 1)
  ELSE <<ProcessCandidate(chunks[i], i)>> \o SurvivingResults(chunks, i + 1)

\* C15: the value run hands back for a document is its aggregated text: the
\* texts of exactly the non-dropped chunks, in ascending part order, joined
\* by newlines, with nothing standing in for a dropped chunk.
C15_ValueIsNewlineJoin ==
  ocr.tag \in {"value", "str"} =>
    /\ ocr.tag = "str"
    /\ ocr.chars = JoinTexts(SurvivingResults(file.chunks, 1))

IsPrefix(s, t) == Len(s) <= Len(t) /\ SubSeq(t, 1, Len(s)) = s

\* C17: in every execution, two workers racing included, every replace of a
\* job record stores an errorLog that has the previously persisted errorLog
\* as a prefix: no persisted entry is lost or overwritten.
C17_ErrorLogAppendOnly ==
  [][\A j \in Jobs : IsPrefix(store[j].errorLog, store'[j].errorLog)]_vars

\* C18: within an attempt the replace that persists PROCESSING and the
\* incremented retryCount comes before the blob fetch and before the OCR
\* call; so wherever the worker stops after that replace, the persisted
\* record is PROCESSING with the incremented count, and a worker that gets
\* the redelivered message loads an attempt that is already counted.
C18_CountedBeforeTheWork ==
  \A w \in Workers :
    /\ (path[w] = "attempt" /\ effects[w] \cap {"fetch", "ocr"} # {})
         => "write" \in effects[w]
    /\ (/\ path[w] = "attempt"
        /\ "write" \in effects[w]
        /\ pc[w] \in {"download", "ocr", "replace_completed", "replace_retry"})
         => store[msg[w]] = [loaded[w] EXCEPT !.status = "PROCESSING",
                                              !.retryCount = @ + 1]
    /\ loaded[w].status = "PROCESSING"
         => loaded[w].retryCount > Len(loaded[w].errorLog)

\* two attempts failed and the third was interrupted after its PROCESSING
\* replace: the next dequeue loads PROCESSING with retryCount = MAX_RETRIES
\* and two notes, and takes the exhausted-retries branch
C18_Witness ==
  \E w \in Workers :
    /\ loaded[w].status = "PROCESSING"
    /\ loaded[w].retryCount = MAX_RETRIES
    /\ Len(loaded[w].errorLog) = MAX_RETRIES - 1
    /\ path[w] = "exhausted"

\* C19: when an attempt fails after its PROCESSING write (no bytes, run
\* returns None, or an exception is raised), process_job sets status QUEUED,
\* never FAILED, appends exactly one note that names the just-incremented
\* retryCount as the attempt number, persists that record and returns False.
C19_FailedAttemptRequeues ==
  [][\A w \in Workers :
       /\ (pc[w] # "replace_retry" /\ pc'[w] = "replace_retry")
            => /\ job_doc'[w].status = "QUEUED"
               /\ job_doc'[w].retryCount = loaded[w].retryCount + 1
               /\ Len(job_doc'[w].errorLog) = Len(loaded[w].errorLog) + 1
               /\ IsPrefix(loaded[w].errorLog, job_doc'[w].errorLog)
               /\ LET note == job_doc'[w].errorLog[Len(job_doc'[w].errorLog)]
                  IN note.kind = "attempt" /\ note.n = loaded[w].retryCount + 1
               /\ store' = store
       /\ (pc[w] = "replace_retry" /\ pc'[w] = "returned")
            => /\ store'[msg[w]] = job_doc[w]
               /\ store'[msg[w]].status = "QUEUED"
               /\ ~verdict'[w]]_vars

\* the attempt that uses up the budget fails: still QUEUED, note number 3
C19_Witness ==
  \E w \in Workers :
    /\ pc[w] = "returned"
    /\ path[w] = "attempt"
    /\ ~verdict[w]
    /\ store[msg[w]].status = "QUEUED"
    /\ store[msg[w]].retryCount = MAX_RETRIES
    /\ store[msg[w]].errorLog[Len(store[msg[w]].errorLog)].n = MAX_RETRIES

\* the status changes the claim allows
ClaimedEdges ==
  {<<"QUEUED", "PROCESSING">>, <<"PROCESSING", "COMPLETED">>,
   <<"PROCESSING", "FAILED">>, <<"PROCESSING", "QUEUED">>}

\* C20: every change of a job's persisted status follows one of
\* QUEUED -> PROCESSING, PROCESSING -> COMPLETED, PROCESSING -> FAILED,
\* PROCESSING -> QUEUED; COMPLETED and FAILED have no outgoing edge.
C20_OnlyClaimedEdges ==
  [][\A j \in Jobs :
       store'[j].status # store[j].status
         => <<store[j].status, store'[j].status>> \in ClaimedEdges]_vars

\* C21: run returns None only when the split raises; when the split
\* succeeds it returns a result list and a token total and never raises,
\* whatever happens to each chunk, a response without usage accounting
\* included.
C21_NoneOnlyWhenSplitFails ==
  ocr # NotRun =>
    /\ ocr.tag = "None" <=> ~file.splitOk
    /\ file.splitOk => ocr.tag = "value"

\* C22: whenever the worker has exited after the shutdown signal, every
\* service connection it held (job store, blob store, queue, recognition
\* client) has been closed, also when one of the closes failed.
C22_AllClosedOnShutdown ==
  \A w \in Workers : pc[w] = "stopped" => open[w] = {}
====
